---- MODULE Spec2Model ----
(***************************************************************************)
(* A model of cockroachdb/metamorphic: the Logger and the two runners      *)
(* (Run, RunInTandem) of metamorphic.go, the deck sampler of weighted.go   *)
(* and the integer sequences of seq/sequence.go.                           *)
(*                                                                         *)
(* Text is modelled as sequences of one-character strings, so that byte    *)
(* offsets, slicing and byte equality are what they are in the code.       *)
(* Go indices are 0-based and kept so in the variables; sequences are      *)
(* 1-based, hence the "+ 1" where a Go index subscripts a sequence.        *)
(***************************************************************************)
EXTENDS Integers, Sequences, FiniteSets, TLC

VARIABLES
    \* ---- metamorphic.go: one call of Run or RunInTandem ----
    entry,          \* which entry point is running: "Run" or "RunInTandem"
    ops,            \* the operation list handed to the runner
    initial,        \* the initial states handed to the runner
    s,              \* the states, one per timeline, as the operations leave them
    logs,           \* the Loggers, one per timeline
    logOpOffsets,   \* RunInTandem's per-timeline, per-operation history offsets
    i,              \* the operation loop's index
    j,              \* the timeline loop's index
    pc,             \* "running", "returned", or "exited" (runtime.Goexit)
    t,              \* the testing.TB: its failed flag and what it was told
    exec,           \* history variable: the <<i, j>> of every operation run
    segs,           \* history variable: per timeline, the text each operation's run
                    \* appended and the Logger calls the operation made
    fault,          \* history variable: the first panic or FailNow inside an operation
    \* ---- weighted.go: one generator returned by RandomDeck ----
    w,              \* the Weighted slice: [Item, Weight] records
    deck,           \* the closure's deck
    index,          \* the closure's cursor
    draws,          \* history variable: the number of calls so far
    dist,           \* history variable: how often each item was returned
    recent,         \* history variable: the last total() items returned
    \* ---- seq/sequence.go: one IntsAscending and one IntsDescending ----
    ity,            \* the integer type I: [signed, bits]
    asc,            \* the IntsAscending: [Min, Max, v]
    desc,           \* the IntsDescending: [Min, Max, v]
    ascOut,         \* history variable: the <<next, restarted>> of every call
    descOut,        \* history variable: the <<next, restarted>> of every call
    \* ---- seq/sequence.go: one Slice ----
    slice,          \* the Slice: [Elems, index], index an IntsAscending[int]
    sliceOut,       \* history variable: what every call of Next did
    sliceMods,      \* history variable: how often Elems was replaced
    \* ---- seq/sequence.go: one randomFilter over an IntsAscending ----
    rf,             \* the randomFilter, its inner sequence, and the position of
                    \* the running call of Next: [inner, probability, pc, restarted]
    rfInner,        \* history variable: the <<curr, currRestarted>> of every inner pull
    rfOut,          \* history variable: what every returned call of Next returned
    rfTick,         \* history variable: the parity of the number of inner pulls
    \* ---- weighted.go: one generator returned by Random ----
    picks,          \* history variable: the draw and the outcome of every call
    \* ---- metamorphic.go: one Logger driven call by call ----
    lg,             \* the Logger
    lgIn,           \* TRUE between an operation's prefix and its terminator
    lgTrace         \* history variable: every call made on lg, with the history
                    \* before and after it

harnessVars == <<entry, ops, initial, s, logs, logOpOffsets, i, j, pc, t, exec, segs, fault>>
deckVars == <<w, deck, index, draws, dist, recent>>
intsVars == <<ity, asc, desc, ascOut, descOut>>
sliceVars == <<slice, sliceOut, sliceMods>>
filterVars == <<rf, rfInner, rfOut, rfTick>>
loggerVars == <<lg, lgIn, lgTrace>>
moreVars == <<sliceVars, filterVars, picks, loggerVars>>
vars == <<harnessVars, deckVars, intsVars, moreVars>>

(***************************************************************************)
(* Bounds of the model.                                                    *)
(***************************************************************************)
MaxOps == 2          \* operations in a list
MaxTimelines == 2    \* states handed to RunInTandem
MaxTotal == 5        \* total weight of a Weighted
MaxPasses == 3       \* passes through the deck
IntBits == 4         \* width of the integer type of a sequence
MaxCycles == 2       \* cycles through an integer sequence

(***************************************************************************)
(* Text helpers.                                                           *)
(***************************************************************************)
NL == "\n"
SP == " "
NUL == "NUL"

Range(q) == {q[k] : k \in 1..Len(q)}

\* bytes.IndexByte(b, c), 0-based; -1 when c is not in b.
RECURSIVE IndexByteFrom(_, _, _)
IndexByteFrom(b, c, k) ==
    IF k > Len(b) THEN -1
    ELSE IF b[k] = c THEN k - 1
    ELSE IndexByteFrom(b, c, k + 1)

IndexByte(b, c) == IndexByteFrom(b, c, 1)

\* b[from:] of Go, from 0-based.
SliceFrom(b, from) == SubSeq(b, from + 1, Len(b))

DigitChar(d) ==
    CASE d = 0 -> "0" [] d = 1 -> "1" [] d = 2 -> "2" [] d = 3 -> "3" [] d = 4 -> "4"
      [] d = 5 -> "5" [] d = 6 -> "6" [] d = 7 -> "7" [] d = 8 -> "8" [] d = 9 -> "9"

\* %d of a non-negative integer.
RECURSIVE Itoa(_)
Itoa(n) == IF n < 10 THEN <<DigitChar(n)>> ELSE Itoa(n \div 10) \o <<DigitChar(n % 10)>>

RECURSIVE Spaces(_)
Spaces(n) == IF n <= 0 THEN <<>> ELSE <<SP>> \o Spaces(n - 1)

\* %6d: right-justified in a field of width 6, padded with spaces.
FmtWidth6(n) == Spaces(6 - Len(Itoa(n))) \o Itoa(n)

\* The result of fmt.Sprintf("op %6d: %s = ", opNumber, op).
OpPrefix(opNumber, opString) ==
    <<"o", "p", SP>> \o FmtWidth6(opNumber) \o <<":", SP>> \o opString \o <<SP, "=", SP>>

ErrorPrefix == <<"e", "r", "r", "o", "r", ":", SP>>
CommentPrefix == <<"/", "/", SP>>
DoneLine == <<"d", "o", "n", "e", NL>>
HistoryHeader == <<"H", "i", "s", "t", "o", "r", "y", ":", NL, NL>>
AbortingHeader == <<"A", "b", "o", "r", "t", "i", "n", "g", ";", SP>> \o HistoryHeader

(***************************************************************************)
(* newlineIndentingWriter.                                                 *)
(***************************************************************************)
Indent == <<SP, SP>>

\* What newlineIndentingWriter.Write(b) hands to the wrapped writer: every
\* '\n' of b is followed by the indent.
RECURSIVE IndentingWriterBytes(_)
IndentingWriterBytes(b) ==
    IF Len(b) = 0 THEN <<>>
    ELSE LET k == IndexByte(b, NL) IN
         IF k >= 0
         THEN SubSeq(b, 1, k + 1) \o Indent \o IndentingWriterBytes(SliceFrom(b, k + 1))
         ELSE b

(***************************************************************************)
(* testing.TB, as the harness uses it: a failed flag and the calls made.   *)
(***************************************************************************)
NewT == [failed |-> FALSE, out |-> <<>>]

TEvent(m, text, args) == [m |-> m, text |-> text, args |-> args]

TLogf(tb, text) == [tb EXCEPT !.out = Append(@, TEvent("Logf", text, <<>>))]
TError(tb, text) == [failed |-> TRUE, out |-> Append(tb.out, TEvent("Error", text, <<>>))]
TErrorf(tb, text, args) == [failed |-> TRUE, out |-> Append(tb.out, TEvent("Errorf", text, args))]
TFailNow(tb) == [failed |-> TRUE, out |-> Append(tb.out, TEvent("FailNow", <<>>, <<>>))]

(***************************************************************************)
(* Logger.  A Logger method acts on a context c = [l, t, exit, panic, pval]:*)
(* the Logger, the testing.TB behind it, whether the goroutine has left    *)
(* through runtime.Goexit, and whether a panic is unwinding (with its      *)
(* value).                                                                 *)
(***************************************************************************)
NewLogger ==
    [history |-> <<>>, lastByte |-> NUL, opNumber |-> 0, op |-> "", logged |-> FALSE]

Ctx(l, tb) == [l |-> l, t |-> tb, exit |-> FALSE, panic |-> FALSE, pval |-> <<>>]

\* (*Logger).Write: through l.w into the history, remembering the last byte.
LoggerWrite(l, b) ==
    [l EXCEPT !.history = @ \o b,
              !.lastByte = IF Len(b) > 0 THEN b[Len(b)] ELSE @]

\* A write through l.wIndent, which wraps l.w (the history buffer), not the Logger.
WIndentWrite(l, b) == [l EXCEPT !.history = @ \o IndentingWriterBytes(b)]

\* (*Logger).Log, text being fmt.Sprint of its arguments.
Log(l, text) == WIndentWrite([l EXCEPT !.logged = TRUE], text)

\* (*Logger).Logf, text being the formatted message.
Logf(l, text) == WIndentWrite([l EXCEPT !.logged = TRUE], text)

\* (*Logger).Commentf.
Commentf(l, text) ==
    LET l1 == IF l.lastByte # NL THEN WIndentWrite(l, <<NL>>) ELSE l
    IN  Logf(l1, CommentPrefix \o text \o <<NL>>)

\* (*Logger).Error.
Error(c, err) == [c EXCEPT !.l = Log(c.l, ErrorPrefix \o err), !.t = TError(c.t, err)]

\* (*Logger).Errorf.
Errorf(c, text) == [c EXCEPT !.l = Logf(c.l, ErrorPrefix \o text), !.t = TErrorf(c.t, text, <<>>)]

\* A faulty FailNow, for C4's sensitivity: t.FailNow first, the history after.
FailNowReversed(c) ==
    [c EXCEPT !.t = TLogf(TFailNow(c.t), HistoryHeader \o c.l.history), !.exit = TRUE]

\* (*Logger).FailNow: the history goes to the test log, then t.FailNow, which
\* does not return (runtime.Goexit).
FailNow(c) ==
    [c EXCEPT !.t = TFailNow(TLogf(c.t, HistoryHeader \o c.l.history)), !.exit = TRUE]

\* (*Logger).Fatal.
Fatal(c, text) == FailNow(Errorf(c, text))

\* (*Logger).History.
History(l) == l.history

(***************************************************************************)
(* Operations.  The Op interface leaves Run to the test author; an         *)
(* operation is modelled by what it does to the state and by the Logger    *)
(* calls it makes, both a function of the state it is run against.         *)
(* Put, Del and Get are the mapOp of the test, over one key; the others    *)
(* exercise the rest of the Logger's interface.                            *)
(***************************************************************************)
States == {0, 1}                     \* the key is absent (0) or holds a value (1)

OpKinds == {"Put", "Del", "Get", "Dump", "Note", "Check", "Must", "Crash"}

Call(m, text) == [m |-> m, text |-> text]

\* Op.String().
OpString(op) ==
    CASE op = "Put" -> <<"P", "u", "t">>
      [] op = "Del" -> <<"D", "e", "l">>
      [] op = "Get" -> <<"G", "e", "t">>
      [] op = "Dump" -> <<"D", "u", "m", "p">>
      [] op = "Note" -> <<"N", "o", "t", "e">>
      [] op = "Check" -> <<"C", "h", "e", "c", "k">>
      [] op = "Must" -> <<"M", "u", "s", "t">>
      [] op = "Crash" -> <<"C", "r", "a", "s", "h">>

\* Op.Run(l, s): the state it leaves and the calls it makes on the Logger.
OpRun(op, st) ==
    CASE op = "Put" -> [s |-> 1, calls |-> <<>>]
      [] op = "Del" -> [s |-> 0, calls |-> <<>>]
      [] op = "Get" ->
            [s |-> st,
             calls |-> <<Call("Logf", IF st = 1 THEN <<"\"", "v", "\"">> ELSE <<"\"", "\"">>)>>]
      [] op = "Dump" ->
            [s |-> st,
             calls |-> IF st = 1 THEN <<Call("Log", <<"k", NL, "v">>)>> ELSE <<Call("Log", <<>>)>>]
      [] op = "Note" -> [s |-> st, calls |-> <<Call("Commentf", <<"c">>)>>]
      [] op = "Check" ->
            [s |-> st, calls |-> IF st = 0 THEN <<Call("Error", <<"e">>)>> ELSE <<>>]
      [] op = "Must" ->
            [s |-> st,
             calls |-> IF st = 0 THEN <<Call("Fatal", <<"f">>)>> ELSE <<Call("Log", <<"o", "k">>)>>]
      [] op = "Crash" ->
            [s |-> st, calls |-> IF st = 0 THEN <<Call("panic", <<"p">>)>> ELSE <<>>]

\* One call of the operation's body.
DoCall(c, call) ==
    CASE call.m = "Log" -> [c EXCEPT !.l = Log(c.l, call.text)]
      [] call.m = "Logf" -> [c EXCEPT !.l = Logf(c.l, call.text)]
      [] call.m = "Commentf" -> [c EXCEPT !.l = Commentf(c.l, call.text)]
      [] call.m = "Error" -> Error(c, call.text)
      [] call.m = "Fatal" -> Fatal(c, call.text)
      [] call.m = "panic" -> [c EXCEPT !.panic = TRUE, !.pval = call.text]

\* The operation's body: its calls in order, up to the one that does not return.
RECURSIVE DoCalls(_, _)
DoCalls(c, calls) ==
    IF Len(calls) = 0 \/ c.exit \/ c.panic THEN c
    ELSE DoCalls(DoCall(c, Head(calls)), Tail(calls))

\* The deferred func of Step and of RunInTandem's closure: a panic is
\* recovered and handed to l.Fatal.
Recover(c) == IF c.panic THEN Fatal([c EXCEPT !.panic = FALSE], c.pval) ELSE c

\* A faulty FinishOp, for C5's sensitivity: the placeholder is forgotten.
FinishOpNoDash(l) == LoggerWrite(l, <<NL>>)

\* What Step and RunInTandem's closure do after the operation returned.
FinishOp(l) ==
    LET l1 == IF ~l.logged THEN LoggerWrite(l, <<"-">>) ELSE l
    IN  LoggerWrite(l1, <<NL>>)

\* Step, up to the call of op.Run: the operation's context and its prefix.
StepPrefix(l, op) ==
    LET l1 == [l EXCEPT !.logged = FALSE, !.op = op]
    IN  LoggerWrite(l1, OpPrefix(l1.opNumber, OpString(l1.op)))

\* Step, after op.Run returned: placeholder, newline, l.opNumber++.
StepFinish(l) == [FinishOp(l) EXCEPT !.opNumber = @ + 1]

\* Step, up to the point where op.Run returns, panics or leaves by Goexit.
StepCalls(c, st, op) ==
    DoCalls([c EXCEPT !.l = StepPrefix(c.l, op)], OpRun(op, st).calls)

\* Step, the deferred recover included.
Step(c, st, op) ==
    LET c3 == StepCalls(c, st, op)
    IN  IF c3.exit \/ c3.panic
        THEN Recover(c3)
        ELSE [c3 EXCEPT !.l = StepFinish(c3.l)]

\* RunInTandem's closure for operation n, up to the point where op.Run
\* returns, panics or leaves by Goexit.  The caller records the offset.
ClosureCalls(c, st, n) ==
    LET l1 == [c.l EXCEPT !.opNumber = n, !.op = ops[n + 1], !.logged = FALSE]
        l2 == LoggerWrite(l1, OpPrefix(l1.opNumber, OpString(l1.op)))
    IN  DoCalls([c EXCEPT !.l = l2], OpRun(ops[n + 1], st).calls)

\* RunInTandem's closure, the deferred recover included.
Closure(c, st, n) ==
    LET c3 == ClosureCalls(c, st, n)
    IN  IF c3.exit \/ c3.panic
        THEN Recover(c3)
        ELSE [c3 EXCEPT !.l = FinishOp(c3.l)]

\* A faulty compareOpResults, for C1's sensitivity: offA is ignored.
CompareWholeA(a, offA, b, offB) == History(a) # SliceFrom(History(b), offB)

\* compareOpResults: TRUE when it returns an error (the tails differ).
compareOpResults(a, offA, b, offB) ==
    SliceFrom(History(a), offA) # SliceFrom(History(b), offB)

\* A faulty Advance, for C3's sensitivity: the inner loop restarts at 1.
AdvanceSkipsFirst(n, k, nTimelines) ==
    IF k + 1 < nTimelines THEN <<n, k + 1>>
    ELSE IF nTimelines > 1 THEN <<n + 1, 1>> ELSE <<n + 1, 0>>

\* RunInTandem's two loops: the <<i, j>> that follows <<n, k>>.
Advance(n, k, nTimelines) ==
    IF k + 1 < nTimelines THEN <<n, k + 1>> ELSE <<n + 1, 0>>

(***************************************************************************)
(* The runners.                                                            *)
(***************************************************************************)
RECURSIVE SeqsUpTo(_, _)
SeqsUpTo(S, n) ==
    IF n = 0 THEN {<<>>}
    ELSE LET shorter == SeqsUpTo(S, n - 1)
         IN  shorter \cup {Append(q, x) : q \in {r \in shorter : Len(r) = n - 1}, x \in S}

NoFault == [kind |-> "none", i |-> 0, j |-> 0, before |-> <<>>, val |-> <<>>]

\* The first panic or Goexit of an operation's body, as the context c3 the
\* body ended in shows it.
FaultOf(c3, n, k) ==
    IF c3.panic
    THEN [kind |-> "panic", i |-> n, j |-> k, before |-> c3.l.history, val |-> c3.pval]
    ELSE IF c3.exit
    THEN [kind |-> "FailNow", i |-> n, j |-> k, before |-> c3.l.history, val |-> <<>>]
    ELSE NoFault

\* What one run of an operation added to a Logger's history, with the calls
\* the operation made.
Seg(before, after, calls) ==
    [text |-> SliceFrom(after.history, Len(before.history)), calls |-> calls]

\* A faulty RecordOffset, for C2's sensitivity: always row 0.
RecordOffsetRowZero(offs, k, n, l) == [offs EXCEPT ![1][n + 1] = Len(l.history)]

\* A faulty RecordOffset, for C19's sensitivity: the offset is taken after the
\* operation's prefix was written.
RecordOffsetAfterPrefix(offs, k, n, l) ==
    [offs EXCEPT ![k + 1][n + 1] = Len(l.history) + Len(OpPrefix(n, OpString(ops[n + 1])))]

\* logOpOffsets[j][i] = l.history.Len()
RecordOffset(offs, k, n, l) == [offs EXCEPT ![k + 1][n + 1] = Len(l.history)]

DivergedMsg == <<"d", "i", "v", "e", "r", "g", "e", "d">>

DeckIdle ==
    /\ w = <<>> /\ deck = <<>> /\ index = 0 /\ draws = 0 /\ dist = <<>> /\ recent = <<>>

IntsIdle ==
    /\ ity = [signed |-> TRUE, bits |-> 0]
    /\ asc = [Min |-> 0, Max |-> 0, v |-> 0]
    /\ desc = [Min |-> 0, Max |-> 0, v |-> 0]
    /\ ascOut = <<>> /\ descOut = <<>>

HarnessIdle ==
    /\ entry = "none" /\ ops = <<>> /\ initial = <<>> /\ s = <<>> /\ logs = <<>>
    /\ logOpOffsets = <<>> /\ i = 0 /\ j = 0 /\ pc = "returned" /\ t = NewT
    /\ exec = <<>> /\ segs = <<>> /\ fault = NoFault

SliceIdle ==
    /\ slice = [Elems |-> <<>>, index |-> [Min |-> 0, Max |-> 0, v |-> 0]]
    /\ sliceOut = <<>> /\ sliceMods = 0

FilterIdle ==
    /\ rf = [inner |-> [Min |-> 0, Max |-> 0, v |-> 0], probability |-> 0,
             pc |-> "idle", restarted |-> FALSE]
    /\ rfInner = <<>> /\ rfOut = <<>> /\ rfTick = 0

LoggerIdle == lg = NewLogger /\ lgIn = FALSE /\ lgTrace = <<>>

MoreIdle == SliceIdle /\ FilterIdle /\ picks = <<>> /\ LoggerIdle

\* Run's and RunInTandem's prologue: fresh Loggers, zeroed offsets.
HarnessInit ==
    /\ entry \in {"Run", "RunInTandem"}
    /\ ops \in SeqsUpTo(OpKinds, MaxOps)
    /\ \E n \in 1..MaxTimelines :
          /\ entry = "Run" => n = 1
          /\ initial \in [1..n -> States]
    /\ s = initial
    /\ logs = [k \in 1..Len(initial) |-> NewLogger]
    /\ logOpOffsets = [k \in 1..Len(initial) |-> [n \in 1..Len(ops) |-> 0]]
    /\ i = 0 /\ j = 0 /\ pc = "running" /\ t = NewT
    /\ exec = <<>>
    /\ segs = [k \in 1..Len(initial) |-> <<>>]
    /\ fault = NoFault

\* One iteration of Run's loop: Step(l, s, ops[i]).
RunStep ==
    /\ entry = "Run" /\ pc = "running" /\ i < Len(ops)
    /\ LET c3 == StepCalls(Ctx(logs[1], t), s[1], ops[i + 1])
           c == Step(Ctx(logs[1], t), s[1], ops[i + 1])
       IN  /\ logs' = <<c.l>>
           /\ t' = c.t
           /\ s' = IF c.exit THEN s ELSE <<OpRun(ops[i + 1], s[1]).s>>
           /\ pc' = IF c.exit THEN "exited" ELSE "running"
           /\ i' = IF c.exit THEN i ELSE i + 1
           /\ exec' = Append(exec, <<i, 0>>)
           /\ segs' = <<Append(segs[1], Seg(logs[1], c.l, OpRun(ops[i + 1], s[1]).calls))>>
           /\ fault' = FaultOf(c3, i, 0)
    /\ UNCHANGED <<entry, ops, initial, logOpOffsets, j>>

\* Run after its loop: the "done" line, and the history dump of a failed test.
RunDone ==
    /\ entry = "Run" /\ pc = "running" /\ i = Len(ops)
    /\ LET l == LoggerWrite(logs[1], DoneLine)
       IN  /\ logs' = <<l>>
           /\ t' = IF t.failed THEN TLogf(t, HistoryHeader \o l.history) ELSE t
    /\ pc' = "returned"
    /\ UNCHANGED <<entry, ops, initial, s, logOpOffsets, i, j, exec, segs, fault>>

\* One iteration of RunInTandem's inner loop: operation i on timeline j, the
\* dump of a failed test, the comparison with timeline 0.
TandemOp ==
    /\ entry = "RunInTandem" /\ pc = "running" /\ i < Len(ops)
    /\ LET offs == RecordOffset(logOpOffsets, j, i, logs[j + 1])
           c3 == ClosureCalls(Ctx(logs[j + 1], t), s[j + 1], i)
           c == Closure(Ctx(logs[j + 1], t), s[j + 1], i)
           newLogs == [logs EXCEPT ![j + 1] = c.l]
           t1 == IF c.t.failed THEN TLogf(c.t, AbortingHeader \o c.l.history) ELSE c.t
           t2 == IF j > 0 /\ compareOpResults(newLogs[1], offs[1][i + 1],
                                               newLogs[j + 1], offs[j + 1][i + 1])
                 THEN TErrorf(t1, DivergedMsg, <<0, j, i>>)
                 ELSE t1
           nxt == Advance(i, j, Len(logs))
       IN  /\ logOpOffsets' = offs
           /\ logs' = newLogs
           /\ t' = IF c.exit THEN c.t ELSE t2
           /\ s' = IF c.exit THEN s ELSE [s EXCEPT ![j + 1] = OpRun(ops[i + 1], s[j + 1]).s]
           /\ pc' = IF c.exit THEN "exited" ELSE "running"
           /\ i' = IF c.exit THEN i ELSE nxt[1]
           /\ j' = IF c.exit THEN j ELSE nxt[2]
           /\ exec' = Append(exec, <<i, j>>)
           /\ segs' = [segs EXCEPT ![j + 1] =
                          Append(@, Seg(logs[j + 1], c.l, OpRun(ops[i + 1], s[j + 1]).calls))]
           /\ fault' = FaultOf(c3, i, j)
    /\ UNCHANGED <<entry, ops, initial>>

\* RunInTandem after its loops: return logs.
TandemReturn ==
    /\ entry = "RunInTandem" /\ pc = "running" /\ i = Len(ops)
    /\ pc' = "returned"
    /\ UNCHANGED <<entry, ops, initial, s, logs, logOpOffsets, i, j, t, exec, segs, fault>>

Init == HarnessInit /\ DeckIdle /\ IntsIdle /\ MoreIdle

Next ==
    \/ RunStep /\ UNCHANGED <<deckVars, intsVars, moreVars>>
    \/ RunDone /\ UNCHANGED <<deckVars, intsVars, moreVars>>
    \/ TandemOp /\ UNCHANGED <<deckVars, intsVars, moreVars>>
    \/ TandemReturn /\ UNCHANGED <<deckVars, intsVars, moreVars>>

Spec == Init /\ [][Next]_vars

(***************************************************************************)
(* weighted.go: Weighted and the generator returned by RandomDeck.         *)
(***************************************************************************)
Items == <<"a", "b", "c">>

\* The Weighted values of the model: the items above, with weights >= 0
\* that sum to something in 1..MaxTotal.
RECURSIVE SumWeights(_, _)
SumWeights(ws, n) == IF n = 0 THEN 0 ELSE SumWeights(ws, n - 1) + ws[n].Weight

\* Weighted.total
total(ws) == SumWeights(ws, Len(ws))

Weighteds ==
    {ws \in [1..Len(Items) -> [Item : Range(Items), Weight : 0..MaxTotal]] :
        /\ \A k \in 1..Len(Items) : ws[k].Item = Items[k]
        /\ total(ws) \in 1..MaxTotal}

RECURSIVE Copies(_, _)
Copies(x, n) == IF n <= 0 THEN <<>> ELSE <<x>> \o Copies(x, n - 1)

\* A faulty BuildDeck, for C7's sensitivity: j <= Weight instead of j < Weight.
RECURSIVE BuildDeckOffByOne(_, _)
BuildDeckOffByOne(ws, n) ==
    IF n = 0 THEN <<>>
    ELSE BuildDeckOffByOne(ws, n - 1) \o Copies(n - 1, ws[n].Weight + 1)

\* RandomDeck's deck of the first n items: index k (0-based) Weight_k times.
RECURSIVE BuildDeck(_, _)
BuildDeck(ws, n) ==
    IF n = 0 THEN <<>>
    ELSE BuildDeck(ws, n - 1) \o Copies(n - 1, ws[n].Weight)

\* A faulty Swap, for C6's sensitivity: deck[i] = deck[j] only.
SwapOverwrites(d, a, b) == [d EXCEPT ![a + 1] = d[b + 1]]

\* The func handed to rng.Shuffle: deck[i], deck[j] = deck[j], deck[i].
Swap(d, a, b) == [d EXCEPT ![a + 1] = d[b + 1], ![b + 1] = d[a + 1]]

\* rng.Shuffle(len(deck), swap): for k = n-1 down to 1, swap(k, rng.Intn(k+1)).
\* The set of decks it can leave, over every outcome of the draws.
RECURSIVE ShuffleFrom(_, _)
ShuffleFrom(d, k) ==
    IF k <= 0 THEN {d}
    ELSE UNION {ShuffleFrom(Swap(d, k, r), k - 1) : r \in 0..k}

Shuffles(d) == ShuffleFrom(d, Len(d) - 1)

\* A faulty DeckExhausted, for C8's sensitivity: reshuffles one card early.
DeckExhaustedEarly(d, idx) == idx >= Len(d) - 1

\* index == len(deck)
DeckExhausted(d, idx) == idx = Len(d)

\* The last n elements of q, or all of q when it is shorter.
LastN(q, n) == IF Len(q) <= n THEN q ELSE SubSeq(q, Len(q) - n + 1, Len(q))

\* RandomDeck, up to returning the closure.
DeckInit ==
    /\ w \in Weighteds
    /\ deck = BuildDeck(w, Len(w))
    /\ index = Len(deck)
    /\ draws = 0
    /\ dist = [x \in Range(Items) |-> 0]
    /\ recent = <<>>

\* One call of the closure RandomDeck returned.
DeckNext ==
    /\ draws < MaxPasses * total(w)
    /\ \E d \in (IF DeckExhausted(deck, index) THEN Shuffles(deck) ELSE {deck}) :
          LET idx == IF DeckExhausted(deck, index) THEN 0 ELSE index
              it == w[d[idx + 1] + 1].Item
          IN  /\ deck' = d
              /\ index' = idx + 1
              /\ dist' = [dist EXCEPT ![it] = @ + 1]
              /\ recent' = LastN(Append(recent, it), total(w))
    /\ draws' = draws + 1
    /\ UNCHANGED w

InitDeck == DeckInit /\ HarnessIdle /\ IntsIdle /\ MoreIdle

NextDeck == DeckNext /\ UNCHANGED <<harnessVars, intsVars, moreVars>>

SpecDeck == InitDeck /\ [][NextDeck]_vars

(***************************************************************************)
(* seq/sequence.go: IntsAscending and IntsDescending over an integer type  *)
(* of IntBits bits, signed or unsigned.                                    *)
(***************************************************************************)
RECURSIVE Pow2(_)
Pow2(n) == IF n = 0 THEN 1 ELSE 2 * Pow2(n - 1)

MinOf(ty) == IF ty.signed THEN -Pow2(ty.bits - 1) ELSE 0
MaxOf(ty) == IF ty.signed THEN Pow2(ty.bits - 1) - 1 ELSE Pow2(ty.bits) - 1

\* The value of type ty that the integer x wraps to.
Wrap(ty, x) == ((x - MinOf(ty)) % Pow2(ty.bits)) + MinOf(ty)

IntTypes == {[signed |-> sg, bits |-> IntBits] : sg \in BOOLEAN}

\* (*IntsAscending).Next: the sequence it leaves and what it returns.
AscNext(ty, sq) ==
    LET v1 == Wrap(ty, sq.v + 1)
    IN  IF v1 >= sq.Max \/ v1 <= sq.Min
        THEN [sq |-> [sq EXCEPT !.v = sq.Min], next |-> sq.Min, restarted |-> TRUE]
        ELSE [sq |-> [sq EXCEPT !.v = v1], next |-> v1, restarted |-> FALSE]

\* A faulty DescNext, for C16's sensitivity: s.v >= s.Max-1 is not tested.
DescNextNoUpperTest(ty, sq) ==
    LET v1 == Wrap(ty, sq.v - 1)
        top == Wrap(ty, sq.Max - 1)
    IN  IF v1 < sq.Min
        THEN [sq |-> [sq EXCEPT !.v = top], next |-> top, restarted |-> TRUE]
        ELSE [sq |-> [sq EXCEPT !.v = v1], next |-> v1, restarted |-> FALSE]

\* (*IntsDescending).Next: the sequence it leaves and what it returns.
DescNext(ty, sq) ==
    LET v1 == Wrap(ty, sq.v - 1)
        top == Wrap(ty, sq.Max - 1)
    IN  IF v1 < sq.Min \/ v1 >= top
        THEN [sq |-> [sq EXCEPT !.v = top], next |-> top, restarted |-> TRUE]
        ELSE [sq |-> [sq EXCEPT !.v = v1], next |-> v1, restarted |-> FALSE]

\* A composite literal IntsAscending{Min: lo, Max: hi} or
\* IntsDescending{Min: lo, Max: hi}: v is the zero value.
Fresh(lo, hi) == [Min |-> lo, Max |-> hi, v |-> 0]

AscendingInit ==
    /\ ity \in IntTypes
    /\ \E lo \in MinOf(ity)..MaxOf(ity), hi \in MinOf(ity)..MaxOf(ity) :
          lo < hi /\ asc = Fresh(lo, hi)
    /\ desc = Fresh(0, 0)
    /\ ascOut = <<>> /\ descOut = <<>>

\* One call of asc.Next().
AscendingNext ==
    /\ Len(ascOut) < MaxCycles * (asc.Max - asc.Min) + 1
    /\ LET r == AscNext(ity, asc)
       IN  /\ asc' = r.sq
           /\ ascOut' = Append(ascOut, <<r.next, r.restarted>>)
    /\ UNCHANGED <<ity, desc, descOut>>

InitAscending == AscendingInit /\ HarnessIdle /\ DeckIdle /\ MoreIdle

NextAscending == AscendingNext /\ UNCHANGED <<harnessVars, deckVars, moreVars>>

SpecAscending == InitAscending /\ [][NextAscending]_vars

DescendingInit ==
    /\ ity \in IntTypes
    /\ \E lo \in MinOf(ity)..MaxOf(ity), hi \in MinOf(ity)..MaxOf(ity) :
          lo < hi /\ desc = Fresh(lo, hi)
    /\ asc = Fresh(0, 0)
    /\ ascOut = <<>> /\ descOut = <<>>

\* One call of desc.Next().
DescendingNext ==
    /\ Len(descOut) < MaxCycles * (desc.Max - desc.Min) + 1
    /\ LET r == DescNext(ity, desc)
       IN  /\ desc' = r.sq
           /\ descOut' = Append(descOut, <<r.next, r.restarted>>)
    /\ UNCHANGED <<ity, asc, ascOut>>

InitDescending == DescendingInit /\ HarnessIdle /\ DeckIdle /\ MoreIdle

NextDescending == DescendingNext /\ UNCHANGED <<harnessVars, deckVars, moreVars>>

SpecDescending == InitDescending /\ [][NextDescending]_vars

\* Either sequence, over any range of either integer type.
IntsInit == AscendingInit \/ DescendingInit

InitInts == IntsInit /\ HarnessIdle /\ DeckIdle /\ MoreIdle

NextInts ==
    \/ asc.Min < asc.Max /\ AscendingNext /\ UNCHANGED <<harnessVars, deckVars, moreVars>>
    \/ desc.Min < desc.Max /\ DescendingNext /\ UNCHANGED <<harnessVars, deckVars, moreVars>>

SpecInts == InitInts /\ [][NextInts]_vars

(***************************************************************************)
(* seq/sequence.go: Slice, whose index is an IntsAscending[int].  Go's int *)
(* is modelled IntBits wide; the lists are far shorter than its range.     *)
(***************************************************************************)
MaxLen == 3          \* elements of a Slice
MaxMods == 2         \* replacements of a Slice's Elems

IntType == [signed |-> TRUE, bits |-> IntBits]

ElemNames == <<"e0", "e1", "e2", "e3", "e4">>

\* A list of n distinct elements; its k-th element (0-based) is ElemNames[k + 1].
ElemsOf(n) == SubSeq(ElemNames, 1, n)

\* A faulty SliceNext, for C17's sensitivity: the index is never re-synchronized.
SliceNextNoResync(sl) ==
    LET r == AscNext(IntType, sl.index)
        ok == r.next >= 0 /\ r.next < Len(sl.Elems)
    IN  [slice |-> [sl EXCEPT !.index = r.sq], i |-> r.next, panicked |-> ~ok,
         elem |-> IF ok THEN sl.Elems[r.next + 1] ELSE "none", restarted |-> r.restarted]

\* (*Slice).Next: the Slice it leaves, the index it used, and what it returns;
\* an index outside Elems is Go's run-time panic.
SliceNext(sl) ==
    LET idx == IF sl.index.Max # Len(sl.Elems)
               THEN [Min |-> 0, Max |-> Len(sl.Elems), v |-> 0]
               ELSE sl.index
        r == AscNext(IntType, idx)
        ok == r.next >= 0 /\ r.next < Len(sl.Elems)
    IN  [slice |-> [sl EXCEPT !.index = r.sq], i |-> r.next, panicked |-> ~ok,
         elem |-> IF ok THEN sl.Elems[r.next + 1] ELSE "none", restarted |-> r.restarted]

\* A composite literal Slice{Elems: ...} over a non-empty list: index is the
\* zero value.
SliceInit ==
    /\ \E n \in 1..MaxLen : slice = [Elems |-> ElemsOf(n), index |-> Fresh(0, 0)]
    /\ sliceOut = <<>>
    /\ sliceMods = 0

\* One call of slice.Next().
SliceCall ==
    /\ Len(sliceOut) < MaxCycles * MaxLen + 1
    /\ LET r == SliceNext(slice)
       IN  /\ slice' = r.slice
           /\ sliceOut' = Append(sliceOut,
                  [i |-> r.i, elem |-> r.elem, restarted |-> r.restarted,
                   panicked |-> r.panicked, len |-> Len(slice.Elems),
                   index |-> r.slice.index])
    /\ UNCHANGED sliceMods

\* The caller replaces Elems by a list of another non-zero length.
SliceSetElems ==
    /\ sliceMods < MaxMods
    /\ \E n \in 1..MaxLen :
          /\ n # Len(slice.Elems)
          /\ slice' = [slice EXCEPT !.Elems = ElemsOf(n)]
    /\ sliceMods' = sliceMods + 1
    /\ UNCHANGED sliceOut

InitSlice ==
    /\ SliceInit /\ HarnessIdle /\ DeckIdle /\ IntsIdle
    /\ FilterIdle /\ picks = <<>> /\ LoggerIdle

NextSlice ==
    \/ SliceCall /\ UNCHANGED <<harnessVars, deckVars, intsVars, filterVars, picks, loggerVars>>
    \/ SliceSetElems /\ UNCHANGED <<harnessVars, deckVars, intsVars, filterVars, picks, loggerVars>>

SpecSlice == InitSlice /\ [][NextSlice]_vars

(***************************************************************************)
(* seq/sequence.go: randomFilter over an IntsAscending[int].  A call of    *)
(* Next is a loop, one iteration per step.  Probabilities and the draws of *)
(* prng.Float64 are counted in halves: probability 1 is 0.5, 2 is 1.0.     *)
(* The history variables record the first MaxPulls inner pulls and the     *)
(* calls that returned on one of them; the filter itself runs on.          *)
(***************************************************************************)
MaxPulls == 4        \* inner pulls recorded in the history variables

Probabilities == {-1, 0, 1, 2}       \* -0.5, 0.0, 0.5, 1.0

Float64s == {0, 1}                   \* prng.Float64() is in [0.0, 1.0): 0.0, 0.5

\* A faulty Keeps, for C20's sensitivity: <= instead of <.
KeepsOrEqual(f, prob) == f <= prob

\* s.prng.Float64() < s.probability
Keeps(f, prob) == f < prob

\* A faulty RestartedOr, for C12's sensitivity: restarted = currRestarted.
RestartedLast(acc, cur) == cur

\* restarted = restarted || currRestarted
RestartedOr(acc, cur) == acc \/ cur

\* RandomFilter(sequence, probability, prng) over a fresh IntsAscending.
FilterInit ==
    /\ \E lo \in 0..MaxLen, hi \in 0..MaxLen, prob \in Probabilities :
          /\ lo < hi
          /\ rf = [inner |-> Fresh(lo, hi), probability |-> prob,
                   pc |-> "idle", restarted |-> FALSE]
    /\ rfInner = <<>> /\ rfOut = <<>> /\ rfTick = 0

\* The caller calls Next: var restarted bool.
FilterCall ==
    /\ rf.pc = "idle"
    /\ rf' = [rf EXCEPT !.pc = "loop", !.restarted = FALSE]
    /\ UNCHANGED <<rfInner, rfOut, rfTick>>

\* One iteration of Next's loop, f being what prng.Float64() returns.
FilterIter(f) ==
    /\ rf.pc = "loop"
    /\ LET r == AscNext(IntType, rf.inner)
           acc == RestartedOr(rf.restarted, r.restarted)
           rec == Len(rfInner) < MaxPulls
           pulls == IF rec THEN Append(rfInner, <<r.next, r.restarted>>) ELSE rfInner
       IN  /\ rfInner' = pulls
           /\ rfTick' = 1 - rfTick
           /\ IF Keeps(f, rf.probability)
              THEN /\ rf' = [rf EXCEPT !.inner = r.sq, !.restarted = FALSE, !.pc = "idle"]
                   /\ rfOut' = IF rec
                               THEN Append(rfOut, [curr |-> r.next, restarted |-> acc,
                                                   at |-> Len(pulls)])
                               ELSE rfOut
              ELSE /\ rf' = [rf EXCEPT !.inner = r.sq, !.restarted = acc]
                   /\ UNCHANGED rfOut

InitFilter ==
    /\ FilterInit /\ HarnessIdle /\ DeckIdle /\ IntsIdle
    /\ SliceIdle /\ picks = <<>> /\ LoggerIdle

NextFilter ==
    \/ FilterCall /\ UNCHANGED <<harnessVars, deckVars, intsVars, sliceVars, picks, loggerVars>>
    \/ /\ \E f \in Float64s : FilterIter(f)
       /\ UNCHANGED <<harnessVars, deckVars, intsVars, sliceVars, picks, loggerVars>>

\* An iteration whose draw is below the probability.
FilterKeep ==
    /\ \E f \in Float64s : Keeps(f, rf.probability) /\ FilterIter(f)
    /\ UNCHANGED <<harnessVars, deckVars, intsVars, sliceVars, picks, loggerVars>>

\* Any iteration.
FilterLoop ==
    /\ \E f \in Float64s : FilterIter(f)
    /\ UNCHANGED <<harnessVars, deckVars, intsVars, sliceVars, picks, loggerVars>>

\* A running call keeps iterating, and a draw below the probability, when one
\* is possible on every iteration, eventually occurs.
SpecFilter ==
    InitFilter /\ [][NextFilter]_vars /\ WF_vars(FilterLoop) /\ WF_vars(FilterKeep)

(***************************************************************************)
(* metamorphic.go: one Logger driven call by call.  Step is split where it *)
(* calls op.Run, so that the calls an operation makes on the Logger, and   *)
(* the calls a test makes between two Steps, are steps of their own.       *)
(***************************************************************************)
MaxEvents == 4       \* calls made on the Logger

\* The calls an operation or a test makes on the Logger.
LoggerCalls ==
    {Call("Log", <<"x">>), Call("Logf", <<"y", NL>>), Call("Commentf", <<"c">>)}

Event(m, text, before, after, inOp) ==
    [m |-> m, text |-> text, before |-> before.history, after |-> after.history,
     inOp |-> inOp]

LoggerInit == lg = NewLogger /\ lgIn = FALSE /\ lgTrace = <<>>

\* l.Step(s, op), up to the call of op.Run.
LgBegin ==
    /\ Len(lgTrace) < MaxEvents
    /\ ~lgIn
    /\ \E op \in {"Put", "Del"} :
          LET l2 == StepPrefix(lg, op)
          IN  /\ lg' = l2
              /\ lgTrace' = Append(lgTrace, Event("prefix", OpString(op), lg, l2, FALSE))
    /\ lgIn' = TRUE

\* One call of Log, Logf or Commentf, by the running operation or, between
\* two Steps, by the test.
LgCall ==
    /\ Len(lgTrace) < MaxEvents
    /\ \E call \in LoggerCalls :
          LET l2 == DoCall(Ctx(lg, NewT), call).l
          IN  /\ lg' = l2
              /\ lgTrace' = Append(lgTrace, Event(call.m, call.text, lg, l2, lgIn))
    /\ UNCHANGED lgIn

\* l.Step(s, op), after op.Run returned.
LgEnd ==
    /\ Len(lgTrace) < MaxEvents
    /\ lgIn
    /\ LET l2 == StepFinish(lg)
       IN  /\ lg' = l2
           /\ lgTrace' = Append(lgTrace, Event("end", <<>>, lg, l2, TRUE))
    /\ lgIn' = FALSE

InitLogger ==
    /\ LoggerInit /\ HarnessIdle /\ DeckIdle /\ IntsIdle
    /\ SliceIdle /\ FilterIdle /\ picks = <<>>

NextLogger ==
    \/ LgBegin /\ UNCHANGED <<harnessVars, deckVars, intsVars, sliceVars, filterVars, picks>>
    \/ LgCall /\ UNCHANGED <<harnessVars, deckVars, intsVars, sliceVars, filterVars, picks>>
    \/ LgEnd /\ UNCHANGED <<harnessVars, deckVars, intsVars, sliceVars, filterVars, picks>>

SpecLogger == InitLogger /\ [][NextLogger]_vars

(***************************************************************************)
(* weighted.go: the generator returned by Weighted.Random.                 *)
(***************************************************************************)
MaxDraws == 2        \* calls of the generator returned by Random

\* A faulty Negative, for C15's sensitivity: t <= 0 instead of t < 0.
NegativeOrZero(x) == x <= 0

\* t < 0
Negative(x) == x < 0

\* The loop of the closure Random returns, from index k (0-based) with t
\* left: the index and item it returns, or the panic after the loop.
RECURSIVE RandomScan(_, _, _)
RandomScan(ws, k, left) ==
    IF k >= Len(ws) THEN [i |-> k, Item |-> "none", panicked |-> TRUE]
    ELSE LET t2 == left - ws[k + 1].Weight
         IN  IF Negative(t2)
             THEN [i |-> k, Item |-> ws[k + 1].Item, panicked |-> FALSE]
             ELSE RandomScan(ws, k + 1, t2)

\* w.Random(rng), up to returning the closure.
RandomInit ==
    /\ w \in Weighteds
    /\ deck = <<>> /\ index = 0 /\ draws = 0 /\ dist = <<>> /\ recent = <<>>
    /\ picks = <<>>

\* One call of the closure: t := rng.Intn(total), then the loop.
RandomCall ==
    /\ Len(picks) < MaxDraws
    /\ \E t0 \in 0..(total(w) - 1) :
          LET r == RandomScan(w, 0, t0)
          IN  picks' = Append(picks, [t |-> t0, i |-> r.i, Item |-> r.Item,
                                      panicked |-> r.panicked])

InitRandom ==
    /\ RandomInit /\ HarnessIdle /\ IntsIdle
    /\ SliceIdle /\ FilterIdle /\ LoggerIdle

NextRandom ==
    RandomCall /\ UNCHANGED <<harnessVars, deckVars, intsVars, sliceVars, filterVars, loggerVars>>

SpecRandom == InitRandom /\ [][NextRandom]_vars

(***************************************************************************)
(* Properties of the runners.                                              *)
(***************************************************************************)
NumTimelines == Len(initial)

\* The test was told that states 0 and k diverged at operation n.
Reported(n, k) ==
    \E e \in Range(t.out) : e.m = "Errorf" /\ e.text = DivergedMsg /\ e.args = <<0, k, n>>

\* Operation n was started on timeline k.
Executed(n, k) == <<n, k>> \in Range(exec)

\* Operation n was started on timeline k and came back from the closure.
Completed(n, k) ==
    /\ Executed(n, k)
    /\ ~(fault.kind # "none" /\ fault.i = n /\ fault.j = k)

AllExecuted == \A n \in 0..(Len(ops) - 1), k \in 0..(NumTimelines - 1) : Executed(n, k)

SegmentsDiffer(n, k) == segs[k + 1][n + 1].text # segs[1][n + 1].text

\* C1, as claimed: when RunInTandem has ended, for any operation list and
\* any states, every operation was executed on every timeline, and for every
\* operation i and timeline j > 0 a failure naming 0, j and i was reported
\* if and only if timeline j's text for operation i differs from timeline 0's.
C1_AsClaimed ==
    (entry = "RunInTandem" /\ pc # "running") =>
        \A n \in 0..(Len(ops) - 1), k \in 0..(NumTimelines - 1) :
            /\ Executed(n, k)
            /\ k > 0 => (Reported(n, k) <=> SegmentsDiffer(n, k))

\* C1, amended: for every operation i and timeline j > 0 on which operation i
\* ran to completion, a failure naming 0, j and i is reported if and only if
\* the text timeline j logged for operation i differs from the text timeline 0
\* logged for it, and no failure is reported for any other pair; and a run in
\* which no operation panics or calls FailNow executes every operation on
\* every timeline, whether or not a divergence was reported.
C1_DivergenceReportedIffSegmentsDiffer ==
    entry = "RunInTandem" =>
        /\ \A n \in 0..(Len(ops) - 1), k \in 1..(NumTimelines - 1) :
              IF Completed(n, k)
              THEN Reported(n, k) <=> SegmentsDiffer(n, k)
              ELSE ~Reported(n, k)
        /\ \A e \in Range(t.out) :
              e.text = DivergedMsg =>
                  /\ e.m = "Errorf" /\ e.args[1] = 0
                  /\ e.args[2] \in 1..(NumTimelines - 1)
                  /\ e.args[3] \in 0..(Len(ops) - 1)
        /\ (pc # "running" /\ fault.kind = "none") => AllExecuted
        /\ pc = "exited" => fault.kind # "none"

\* A run that reported a divergence at operation 0 and still ran operation 1,
\* which did not diverge, on both timelines.
C1_Witness ==
    /\ entry = "RunInTandem" /\ pc = "returned" /\ NumTimelines >= 2 /\ Len(ops) >= 2
    /\ Reported(0, 1) /\ Executed(1, 0) /\ Executed(1, 1) /\ ~Reported(1, 1)

InitialStatesEqual == \A k \in 1..NumTimelines : initial[k] = initial[1]

\* C2: RunInTandem on equal initial states, with operations that are a
\* function of the state, reports no divergence, and whenever an operation
\* has been run on every timeline all the histories are the same bytes.
C2_EqualStatesNoDivergence ==
    (entry = "RunInTandem" /\ InitialStatesEqual) =>
        /\ \A e \in Range(t.out) : e.text # DivergedMsg
        /\ (pc # "exited" /\ j = 0) =>
              \A k \in 1..NumTimelines : logs[k].history = logs[1].history

\* Two equal timelines that ran two operations, one of them logging the state.
C2_Witness ==
    /\ entry = "RunInTandem" /\ pc = "returned" /\ InitialStatesEqual
    /\ NumTimelines >= 2 /\ Len(ops) >= 2 /\ "Get" \in Range(ops)
    /\ Len(logs[2].history) > 0

\* C3: the operations are run in the order (0,0), (0,1), ..., (0,N-1), (1,0),
\* ...: operation i on every timeline, in timeline order, before operation
\* i+1 on any; a run that returns has run each operation once per timeline.
C3_LockstepOrder ==
    entry = "RunInTandem" =>
        /\ \A m \in 1..Len(exec) :
              exec[m] = <<(m - 1) \div NumTimelines, (m - 1) % NumTimelines>>
        /\ pc = "returned" => Len(exec) = Len(ops) * NumTimelines

\* Two timelines, two operations, all four runs done.
C3_Witness ==
    /\ entry = "RunInTandem" /\ pc = "returned" /\ NumTimelines >= 2 /\ Len(ops) >= 2
    /\ Len(exec) = 4

\* C4: when an operation panics, in Run (Step) or in RunInTandem, the run is
\* over at that operation: "error: <panic value>" has been appended to that
\* timeline's history, the test is failed, the last two things the test was
\* told are the full history (Logf) and then FailNow, and the panicking run
\* is the last operation run on any timeline.
C4_PanicAbortsWithHistory ==
    fault.kind = "panic" =>
        /\ pc = "exited"
        /\ logs[fault.j + 1].history = fault.before \o ErrorPrefix \o fault.val
        /\ t.failed
        /\ Len(t.out) >= 2
        /\ t.out[Len(t.out)] = TEvent("FailNow", <<>>, <<>>)
        /\ t.out[Len(t.out) - 1] =
              TEvent("Logf", HistoryHeader \o logs[fault.j + 1].history, <<>>)
        /\ \A m \in 1..(Len(t.out) - 1) : t.out[m].m # "FailNow"
        /\ exec[Len(exec)] = <<fault.i, fault.j>>
        /\ Len(segs[fault.j + 1]) = fault.i + 1

\* A panic in the second operation on the second timeline.
C4_Witness ==
    /\ entry = "RunInTandem" /\ fault.kind = "panic" /\ fault.i = 1 /\ fault.j = 1

\* The lines of a text: the pieces its '\n' bytes end, and what follows the
\* last '\n' when that is not empty.
RECURSIVE SplitLines(_)
SplitLines(b) ==
    IF Len(b) = 0 THEN <<>>
    ELSE LET k == IndexByte(b, NL) IN
         IF k < 0 THEN <<b>>
         ELSE <<SubSeq(b, 1, k)>> \o SplitLines(SliceFrom(b, k + 1))

HasPrefix(b, p) == Len(b) >= Len(p) /\ SubSeq(b, 1, Len(p)) = p

IsContinuation(line) == HasPrefix(line, <<SP, SP>>)

RECURSIVE SelectLines(_, _)
SelectLines(lines, keep) ==
    IF Len(lines) = 0 THEN <<>>
    ELSE (IF keep = IsContinuation(Head(lines))
          THEN <<Head(lines)>> ELSE <<>>) \o SelectLines(Tail(lines), keep)

\* "op <k>: <descriptor> = " for k < 10, the number right-justified in 6 columns.
ExpectedPrefix(k, op) ==
    <<"o", "p", SP, SP, SP, SP, SP, SP, DigitChar(k), ":", SP>> \o OpString(op) \o <<SP, "=", SP>>

\* The text written by calls of Log, Logf and Error.
RECURSIVE RawOutput(_)
RawOutput(calls) ==
    IF Len(calls) = 0 THEN <<>>
    ELSE (IF Head(calls).m = "Error" THEN ErrorPrefix ELSE <<>>)
         \o Head(calls).text \o RawOutput(Tail(calls))

\* A block of the transcript (an operation's line and its continuation
\* lines) with the line's prefix and the continuation lines' indent removed.
RECURSIVE Unindented(_)
Unindented(lines) ==
    IF Len(lines) = 0 THEN <<>>
    ELSE <<NL>> \o SliceFrom(Head(lines), 2) \o Unindented(Tail(lines))

\* The texts of the first m operations' runs on Run's one timeline, in order.
RECURSIVE CatSegs(_)
CatSegs(m) == IF m = 0 THEN <<>> ELSE CatSegs(m - 1) \o segs[1][m].text

\* The shape claimed of Run's transcript.
TranscriptShape(h, n) ==
    LET lines == SplitLines(h)
        body == SubSeq(lines, 1, Len(lines) - 1)
        opLines == SelectLines(body, FALSE)
    IN  /\ Len(h) > 0 /\ h[Len(h)] = NL
        /\ lines[Len(lines)] = <<"d", "o", "n", "e">>
        /\ Len(opLines) = n
        /\ n > 0 => ~IsContinuation(body[1])
        /\ n = 0 => h = <<"d", "o", "n", "e", NL>>
        /\ \A k \in 0..(n - 1) :
              LET p == ExpectedPrefix(k, ops[k + 1])
                  made == segs[1][k + 1].calls
                  block == SplitLines(segs[1][k + 1].text)
              IN  /\ HasPrefix(opLines[k + 1], p)
                  /\ (SliceFrom(opLines[k + 1], Len(p)) = <<"-">>) <=> (made = <<>>)
                  \* the operation's own text is one line and continuation lines
                  /\ block[1] = opLines[k + 1]
                  /\ \A m \in 2..Len(block) : IsContinuation(block[m])
                  /\ (made # <<>> /\ \A c \in Range(made) : c.m \in {"Log", "Logf", "Error"}) =>
                        SliceFrom(block[1], Len(p)) \o Unindented(Tail(block))
                            = RawOutput(made)
        \* the history is the operations' texts, in order, and the done line
        /\ h = CatSegs(n) \o <<"d", "o", "n", "e", NL>>

WeightOf(x) == (CHOOSE e \in Range(w) : e.Item = x).Weight

RECURSIVE Count(_, _)
Count(q, x) == IF Len(q) = 0 THEN 0 ELSE (IF Head(q) = x THEN 1 ELSE 0) + Count(Tail(q), x)

\* C6: after exactly k * total calls, k >= 1, every item has been returned
\* exactly k * weight times, whatever the shuffles did.
C6_FullPassesExactCounts ==
    (draws > 0 /\ draws % total(w) = 0) =>
        \A x \in Range(Items) : dist[x] = (draws \div total(w)) * WeightOf(x)

\* Two full passes of a deck with three items, one of them of weight 0.
C6_Witness ==
    /\ draws = 2 * total(w) /\ total(w) >= 3
    /\ \E x, y, z \in Range(Items) :
          WeightOf(x) = 0 /\ WeightOf(y) = 1 /\ WeightOf(z) >= 2 /\ dist[z] = 2 * WeightOf(z)

\* C7, as claimed: in any window of total consecutive draws, wherever it
\* starts, every item appears exactly weight times.
C7_AsClaimed ==
    Len(recent) = total(w) => \A x \in Range(Items) : Count(recent, x) = WeightOf(x)

\* C7, amended: in any window of total consecutive draws that starts at a
\* pass boundary (after a multiple of total draws), every item appears
\* exactly weight times.
C7_AlignedWindowExactCounts ==
    (draws > 0 /\ draws % total(w) = 0) =>
        /\ Len(recent) = total(w)
        /\ \A x \in Range(Items) : Count(recent, x) = WeightOf(x)

\* The window that is the second pass, of a deck of two items or more.
C7_Witness ==
    /\ draws = 2 * total(w) /\ total(w) >= 3
    /\ \E x, y \in Range(Items) : x # y /\ WeightOf(x) >= 1 /\ WeightOf(y) >= 2
    /\ recent[1] # recent[2]

\* C8: at every draw of pass p (0-based) the number of times an item has
\* been returned so far is at most (p + 1) * weight.
C8_PassPrefixBounded ==
    draws > 0 =>
        \A x \in Range(Items) : dist[x] <= (((draws - 1) \div total(w)) + 1) * WeightOf(x)

\* In the middle of the second pass, an item already at its bound.
C8_Witness ==
    /\ draws > total(w) /\ draws % total(w) # 0
    /\ \E x \in Range(Items) : WeightOf(x) >= 1 /\ dist[x] = 2 * WeightOf(x)

(***************************************************************************)
(* Properties of the integer sequences.                                    *)
(***************************************************************************)
\* C9, as claimed: a fresh IntsAscending{Min, Max}, Min < Max, returns Min,
\* Min+1, ..., Max-1 on its first Max-Min calls, restarted only on the first,
\* and <<Min, TRUE>> on the call after those.
C9_AsClaimed ==
    \A k \in 1..Len(ascOut) :
        /\ k <= asc.Max - asc.Min => ascOut[k] = <<asc.Min + k - 1, k = 1>>
        /\ k = asc.Max - asc.Min + 1 => ascOut[k] = <<asc.Min, TRUE>>

\* C10, as claimed: a fresh IntsDescending{Min, Max}, Min < Max, returns
\* Max-1, Max-2, ..., Min on its first Max-Min calls, restarted only on the
\* first, and <<Max-1, TRUE>> on the call after those.
C10_AsClaimed ==
    \A k \in 1..Len(descOut) :
        /\ k <= desc.Max - desc.Min => descOut[k] = <<desc.Max - k, k = 1>>
        /\ k = desc.Max - desc.Min + 1 => descOut[k] = <<desc.Max - 1, TRUE>>


C17_IndexResynchronized ==
    \A k \in 1..Len(sliceOut) :
        LET o == sliceOut[k]
        IN  /\ ~o.panicked
            /\ o.index.Min = 0 /\ o.index.Max = o.len
            /\ o.i \in 0..(o.len - 1)
            /\ o.elem = ElemNames[o.i + 1]

\* A call after a shrink that left the old cursor outside the new list, and a
\* call after a growth.
C17_Witness ==
    /\ \E k \in 1..(Len(sliceOut) - 1) :
          sliceOut[k].len > sliceOut[k + 1].len /\ sliceOut[k].i >= sliceOut[k + 1].len
    /\ \E k \in 1..(Len(sliceOut) - 1) : sliceOut[k].len < sliceOut[k + 1].len


(***************************************************************************)
(* Properties of randomFilter.                                             *)
(***************************************************************************)
\* The number of inner pulls made before the k-th returned call began.
PullsBefore(k) == IF k = 1 THEN 0 ELSE rfOut[k - 1].at

\* C12: a call of Next returns the value of its last inner pull, and
\* restarted = TRUE exactly when one of the inner pulls made during the call
\* returned restarted = TRUE; the calls consume consecutive, disjoint stretches
\* of the inner sequence, so the returned values are a subsequence of it, in
\* order, and no inner restart is lost.
C12_FilterForwardsRestart ==
    \A k \in 1..Len(rfOut) :
        LET o == rfOut[k]
        IN  /\ PullsBefore(k) < o.at /\ o.at <= Len(rfInner)
            /\ o.curr = rfInner[o.at][1]
            /\ o.restarted = (\E m \in (PullsBefore(k) + 1)..o.at : rfInner[m][2])

\* A returned call that discarded a pull that restarted and kept one that did
\* not, after an earlier returned call.
C12_Witness ==
    \E k \in 2..Len(rfOut) :
        /\ rfOut[k].restarted
        /\ ~rfInner[rfOut[k].at][2]
        /\ rfOut[k].at > PullsBefore(k) + 1

\* C20: with a probability above 0 a running call of Next eventually returns;
\* with a probability of 0 or less a running call never returns and goes on
\* pulling from the inner sequence forever.
C20_ReturnsIffPositive ==
    /\ (rf.probability > 0 /\ rf.pc = "loop") ~> (rf.pc = "idle")
    /\ [](rf.probability <= 0 /\ rf.pc = "loop"
            => [](rf.pc = "loop") /\ []<>(rfTick = 0) /\ []<>(rfTick = 1))

\* A call with probability 0.5 that returned after discarding two pulls.
C20_Witness ==
    /\ rf.probability = 1
    /\ rf.pc = "idle"
    /\ Len(rfOut) >= 1 /\ rfOut[1].at >= 3


(***************************************************************************)
(* Properties of the Logger.                                               *)
(***************************************************************************)
\* The text q ends with the text suffix.
HasSuffix(q, suffix) ==
    /\ Len(q) >= Len(suffix)
    /\ SubSeq(q, Len(q) - Len(suffix) + 1, Len(q)) = suffix

\* C13, as claimed: an operation that ran to completion calling Commentf and
\* nothing else on the Logger is treated as having logged nothing, so the
\* runner appends the "-" placeholder before the terminating newline.
C13_AsClaimed ==
    \A k \in 1..Len(segs) : \A n \in 1..Len(segs[k]) :
        LET made == segs[k][n].calls
        IN  (/\ Completed(n - 1, k - 1)
             /\ made # <<>>
             /\ \A c \in Range(made) : c.m = "Commentf")
                => HasSuffix(segs[k][n].text, <<"-", NL>>)


EndsInNewline(h) == Len(h) > 0 /\ h[Len(h)] = NL

\* C14, as claimed: whatever calls were made on the Logger before, Commentf
\* writes a newline before the comment exactly when the history does not
\* already end in a newline byte, and then "// <text>" and a newline.  Each
\* newline comes with the indent that the indenting writer puts after it.
C14_AsClaimed ==
    \A k \in 1..Len(lgTrace) :
        LET e == lgTrace[k]
        IN  e.m = "Commentf" =>
                e.after = e.before
                          \o (IF EndsInNewline(e.before) THEN <<>> ELSE <<NL>> \o Indent)
                          \o CommentPrefix \o e.text \o <<NL>> \o Indent

\* C18, as claimed: in a transcript built by Steps, with no call between two
\* Steps other than Commentf, every operation's prefix begins at the start
\* of a line, and every comment is a line "// <text>", indented or not.
C18_AsClaimed ==
    (\A k \in 1..Len(lgTrace) : lgTrace[k].m \in {"Log", "Logf"} => lgTrace[k].inOp) =>
        \A k \in 1..Len(lgTrace) :
            LET e == lgTrace[k]
                lines == SplitLines(e.after)
            IN  /\ e.m = "prefix" => (e.before = <<>> \/ EndsInNewline(e.before))
                /\ e.m = "Commentf" =>
                      /\ Len(lines) >= 2
                      /\ lines[Len(lines) - 1] \in
                            {CommentPrefix \o e.text, Indent \o CommentPrefix \o e.text}


(***************************************************************************)
(* Properties of Weighted.Random.                                          *)
(***************************************************************************)
\* C15: for non-negative weights of total > 0 and every draw t in
\* [0, total), the generator returned by Random returns the item whose
\* cumulative partition holds t (the weights before it sum to at most t, the
\* weights up to and including it to more than t); the "unreachable" panic
\* is not reached and an item of weight 0 is never returned.
C15_RandomPicksPartition ==
    \A k \in 1..Len(picks) :
        LET o == picks[k]
        IN  /\ ~o.panicked
            /\ o.i \in 0..(Len(w) - 1)
            /\ o.Item = w[o.i + 1].Item
            /\ SumWeights(w, o.i) <= o.t /\ o.t < SumWeights(w, o.i + 1)
            /\ w[o.i + 1].Weight > 0

\* The largest draw on a set whose first and last items have weight 0, and
\* the draw 0 on the same set.
C15_Witness ==
    /\ w[1].Weight = 0 /\ w[Len(w)].Weight = 0 /\ total(w) >= 2
    /\ Len(picks) = 2
    /\ picks[1].t = total(w) - 1 /\ picks[1].i = 1
    /\ picks[2].t = 0 /\ picks[2].i = 1


(***************************************************************************)
(* Properties of the integer sequences.                                    *)
(***************************************************************************)
\* C16: over a signed or unsigned integer type and any Min < Max, every
\* value IntsAscending.Next and IntsDescending.Next return, on every call,
\* lies in [Min, Max), the calls on which the cursor wraps around at the
\* type's minimum or maximum included.
C16_ReturnedValuesInRange ==
    /\ \A k \in 1..Len(ascOut) : asc.Min <= ascOut[k][1] /\ ascOut[k][1] < asc.Max
    /\ \A k \in 1..Len(descOut) : desc.Min <= descOut[k][1] /\ descOut[k][1] < desc.Max

\* A descending sequence that returned the type's minimum value and, on the
\* next call, with the decremented cursor wrapped around, Max-1.
C16_Witness ==
    \E k \in 2..Len(descOut) :
        /\ descOut[k - 1][1] = MinOf(ity)
        /\ descOut[k] = <<desc.Max - 1, TRUE>>
        /\ desc.Max - desc.Min >= 2


(***************************************************************************)
(* Properties of RunInTandem's histories and offsets.                      *)
(***************************************************************************)
\* No step takes anything away from a history: what it was is a prefix of
\* what it is.
HistoriesGrow ==
    \A k \in 1..Len(logs) : HasPrefix(logs'[k].history, logs[k].history)

\* The offsets recorded for a timeline increase strictly with the operation.
OffsetsIncrease ==
    \A k \in 0..(NumTimelines - 1) : \A n \in 0..(Len(ops) - 1), m \in 0..(Len(ops) - 1) :
        (n < m /\ Executed(n, k) /\ Executed(m, k)) =>
            logOpOffsets[k + 1][n + 1] < logOpOffsets[k + 1][m + 1]

\* Operation n has just been compared on timeline k > 0: on timeline 0 and on
\* timeline k, the history from the recorded offset on is the text that
\* operation n wrote.
TailsAreOperationText ==
    (exec # <<>> /\ pc # "exited" /\ exec[Len(exec)][2] > 0) =>
        LET n == exec[Len(exec)][1]
            k == exec[Len(exec)][2]
        IN  /\ SliceFrom(logs[1].history, logOpOffsets[1][n + 1]) = segs[1][n + 1].text
            /\ SliceFrom(logs[k + 1].history, logOpOffsets[k + 1][n + 1])
                   = segs[k + 1][n + 1].text

\* C19: in RunInTandem every history is append-only, the offsets recorded for
\* a timeline are strictly increasing in the operation index, and when
\* timeline j > 0 is compared for operation i the bytes from the recorded
\* offset to the end of the history are the text written during operation i,
\* on timeline 0 and on timeline j.
C19_AppendOnlyAndOffsets ==
    /\ [][entry = "RunInTandem" => HistoriesGrow]_vars
    /\ [](entry = "RunInTandem" => (OffsetsIncrease /\ TailsAreOperationText))

\* The second operation has been compared on the second timeline, where it
\* wrote another text than on the first.
C19_Witness ==
    /\ entry = "RunInTandem" /\ pc # "exited"
    /\ exec # <<>> /\ exec[Len(exec)] = <<1, 1>>
    /\ segs[1][2].text # segs[2][2].text
    /\ logOpOffsets[2][2] > logOpOffsets[2][1]

====
